---- MODULE Spec2Model ----
(***************************************************************************)
(* The reflection core of limit-reflection: ReflectionModel (model.rs),    *)
(* ReflectionEngine (engine.rs), QuantumReflector (quantum.rs) and the     *)
(* QuantumSampler it draws from (limit-quantum/sampler.rs), called by      *)
(* several threads that share one engine behind its std::sync::RwLock;     *)
(* and, called by a client of their own, the other QuantumSampler methods, *)
(* RDCurve (limit-quantum/rd.rs) and GraphMetrics (limit-benchmark).       *)
(*                                                                         *)
(* Numbers.  f32 confidences are fixed point with ConfOne standing for     *)
(* 1.0; probabilities and the uniform draws r are fixed point with ProbOne *)
(* standing for 1.0.  A query text is represented by the two features the  *)
(* code reads from it: its length in bytes and its whitespace word count.  *)
(***************************************************************************)
EXTENDS Integers, Sequences, FiniteSets, TLC

\* ------------------------------------------------------------ bounds
Threads == {"t1", "t2"}
NoThread == "none"
\* passes (reflect_on_query executions) the callers may ask for in one run
MaxPasses == 2
\* record_error calls the callers may make in one run
MaxErrors == 4
\* the runs explored: one rich in passes, one rich in recorded errors
Workloads == {[passes |-> MaxPasses, errors |-> 0], [passes |-> 1, errors |-> MaxErrors]}
\* add_step calls a client of the bare ReflectionModel may make in one run
MaxSteps == 4
\* the runs of such a client: one rich in steps, one mixed, one rich in errors
ModelWorkloads ==
    {[steps |-> MaxSteps, errors |-> 1], [steps |-> 3, errors |-> MaxErrors],
     [steps |-> 0, errors |-> 2 * MaxErrors]}
\* the confidences of the steps such a client adds: 0.3, 0.4, 0.5, 0.9
ConfidenceGrid == {3, 4, 5, 9}
\* reflection_depth values 0..MaxDepth are tried for ReflectionEngine::new
MaxDepth == 2
\* draws per sample() call (QuantumReflector::new asks for 100)
NumSamples == 2
\* the uniform draws r a sample() call may see, in units of 1/ProbOne
RGrid == {0, 50, 2800}
\* QuantumSampler temperatures tried, in tenths: -0.5, 0, 0.5 (the reflector's), 1.0
Temperatures == {-5, 0, 5, 10}
\* the probability vectors sample() is tried on, in units of 1/ProbOne: empty,
\* one certain category, uniform, the reflector's vector for "hi", all zero
SampleVectors == {<<>>, <<3000>>, <<1000, 1000, 1000>>, <<20, 50, 500>>, <<0, 0>>}
\* anneal() is tried on the vectors of up to MaxDim entries over 0, 0.5, 1 and
\* quantum_walk_step() on 0/1 states of up to MaxDim entries with matrices of
\* up to MaxDim + 1 rows of up to MaxDim + 1 entries
MaxDim == 2
\* RDCurve::add_point calls a client may make, and the points it may add:
\* those of test_rd_curve_optimal and test_single_point_curve and a zero point
MaxPoints == 3
RDPoints == {<<50, 50, 16>>, <<80, 20, 32>>, <<60, 40, 24>>, <<75, 25, 32>>, <<0, 0, 8>>}
\* error labels passed to record_error
Labels == {"E1", "E2"}
\* query texts the callers pass in: "hi"
Queries == {[len |-> 2, words |-> 1]}
\* the texts reflect_on_query is tried on alone: "", "hi", "Test query", and
\* texts of 49, 50, 60 and 200 words
QueryTexts ==
    {[len |-> 0, words |-> 0], [len |-> 2, words |-> 1], [len |-> 10, words |-> 2],
     [len |-> 293, words |-> 49], [len |-> 299, words |-> 50], [len |-> 359, words |-> 60],
     [len |-> 1199, words |-> 200]}

\* ------------------------------------------------------------ numbers
ConfOne == 2000
ProbOne == 3000

Min(a, b) == IF a <= b THEN a ELSE b

RECURSIVE SumSeq(_)
SumSeq(s) == IF s = <<>> THEN 0 ELSE Head(s) + SumSeq(Tail(s))

\* f32::log2 on the integers the reflector takes it of (sample counts and the
\* number of categories, 1..8), in units of 1/4096
Log2Table == <<0, 4096, 6492, 8192, 9510, 10588, 11498, 12288>>
Log2(n) == Log2Table[n]

\* ------------------------------------------------------------ sampler.rs
\* sample whose draw falls back on the last index when r exceeds the mass
RECURSIVE DrawClamped(_, _, _, _)
DrawClamped(probabilities, r, idx, cumsum) ==
    IF idx > Len(probabilities) THEN Len(probabilities)
    ELSE IF r <= cumsum + probabilities[idx] THEN idx
    ELSE DrawClamped(probabilities, r, idx + 1, cumsum + probabilities[idx])

\* one draw of QuantumSampler::sample: the first index whose running sum
\* reaches r, or 0 (no index) when r exceeds the total mass
RECURSIVE Draw(_, _, _, _)
Draw(probabilities, r, idx, cumsum) ==
    IF idx > Len(probabilities) THEN 0
    ELSE IF r <= cumsum + probabilities[idx] THEN idx
    ELSE Draw(probabilities, r, idx + 1, cumsum + probabilities[idx])

\* QuantumSampler::sample over the draws rs; indices are 1-based here
RECURSIVE sample(_, _)
sample(probabilities, rs) ==
    IF rs = <<>> THEN <<>>
    ELSE LET idx == Draw(probabilities, Head(rs), 1, 0)
         IN  (IF idx = 0 THEN <<>> ELSE <<idx>>) \o sample(probabilities, Tail(rs))

\* QuantumSampler::new; temperature is in tenths
QuantumSampler(temperature, num_samples) ==
    [temperature |-> temperature, num_samples |-> num_samples]

\* an f32 that is a number (in thousandths), a NaN or an infinity
Finite(value) == [class |-> "finite", value |-> value]
NaN == [class |-> "nan", value |-> 0]
Infinity == [class |-> "inf", value |-> 0]

\* f32::exp in thousandths, on the arguments -2.0, -1.5 .. 2.0 (given in halves)
ExpTable == <<135, 223, 368, 607, 1000, 1649, 2718, 4482, 7389>>
Exp(halves) == ExpTable[halves + 5]

\* (p / self.temperature).exp() with p in units of 1/ProbOne: IEEE division
\* by 0.0 gives an infinity for p > 0 and a NaN for 0.0 / 0.0
ExpOfQuotient(p, temperature) ==
    IF temperature = 0
    THEN (IF p = 0 THEN NaN ELSE Infinity)
    ELSE Finite(Exp((20 * p) \div (ProbOne * temperature)))

\* .sum() over f32: a NaN term makes the sum NaN, an infinite one infinite
FloatSum(terms) ==
    IF \E i \in 1..Len(terms) : terms[i].class = "nan" THEN NaN
    ELSE IF \E i \in 1..Len(terms) : terms[i].class = "inf" THEN Infinity
    ELSE Finite(SumSeq([i \in 1..Len(terms) |-> terms[i].value]))

\* a / b over f32, for a >= 0 and b > 0: inf / inf and anything with a NaN
\* are NaN
FloatDiv(a, b) ==
    IF a.class = "nan" \/ b.class = "nan" THEN NaN
    ELSE IF a.class = "inf" THEN (IF b.class = "inf" THEN NaN ELSE Infinity)
    ELSE IF b.class = "inf" THEN Finite(0)
    ELSE Finite((1000 * a.value) \div b.value)

\* what a call hands back: a value, or the panic / error it ended in
Ok(value) == [outcome |-> "Ok", value |-> value]
Panic(message) == [outcome |-> "Panic", value |-> message]

\* QuantumSampler::anneal
anneal(self, probabilities) ==
    LET terms == [i \in 1..Len(probabilities) |->
                     ExpOfQuotient(probabilities[i], self.temperature)]
        sum == FloatSum(terms)
    IN  Ok([i \in 1..Len(probabilities) |-> FloatDiv(terms[i], sum)])

\* the reads transition_matrix[j][i] of the two loops over 0..n that index
\* past the end of the matrix or of a row (indices are 1-based here)
OutOfBounds(n, transition_matrix) ==
    {<<j, i>> \in (1..n) \X (1..n) :
        j > Len(transition_matrix) \/ i > Len(transition_matrix[j])}

\* QuantumSampler::quantum_walk_step; the entries of the state and of the
\* matrix are whole numbers, the normalized result is in thousandths
quantum_walk_step(current_state, transition_matrix) ==
    LET n == Len(current_state)
        next_state == [i \in 1..n |->
            SumSeq([j \in 1..n |-> transition_matrix[j][i] * current_state[j]])]
        sum == SumSeq(next_state)
    IN  IF OutOfBounds(n, transition_matrix) # {}
        THEN Panic("index out of bounds")
        ELSE Ok([i \in 1..n |-> IF sum > 0 THEN (1000 * next_state[i]) \div sum
                                ELSE 1000 * next_state[i]])

\* ------------------------------------------------------------ quantum.rs
compute_probabilities(input) ==
    << Min((input.len * ProbOne) \div 100, ProbOne) \div 3,
       Min((input.words * ProbOne) \div 20, ProbOne) \div 3,
       (ProbOne \div 2) \div 3 >>

CountOf(samples, k) == Cardinality({i \in 1..Len(samples) : samples[i] = k})

\* entropy / max_entropy in thousandths: with counts c_k out of n samples,
\* sum_k (c_k/n) * (log2 n - log2 c_k) / log2(len(probabilities))
EntropyRatio(samples, probabilities) ==
    LET n == Len(samples)
        cats == {k \in 1..Len(probabilities) : CountOf(samples, k) > 0}
        term(k) == CountOf(samples, k) * (Log2(n) - Log2(CountOf(samples, k)))
        S == [k \in 1..Len(probabilities) |-> IF k \in cats THEN term(k) ELSE 0]
    IN  (1000 * SumSeq(S)) \div (n * Log2(Len(probabilities)))

\* compute_confidence that returns the entropy ratio itself, not 1 - ratio
compute_confidence_entropy(samples, probabilities) ==
    IF samples = <<>> THEN 0
    ELSE (ConfOne \div 1000) * Min(EntropyRatio(samples, probabilities), 1000)

compute_confidence(samples, probabilities) ==
    IF samples = <<>> THEN 0
    ELSE ConfOne - (ConfOne \div 1000) * Min(EntropyRatio(samples, probabilities), 1000)

\* ------------------------------------------------------------ model.rs
StepTypes == {"Query", "Retrieval", "Reasoning", "Validation", "Synthesis"}

\* ReasoningStep::new; id stands for the fresh Uuid
ReasoningStep(id, step_type, confidence) ==
    [id |-> id, step_type |-> step_type, confidence |-> confidence]

\* QuantumReflector::reflect
reflect(id, input, rs) ==
    LET probabilities == compute_probabilities(input)
        samples == sample(probabilities, rs)
    IN  ReasoningStep(id, "Validation", compute_confidence(samples, probabilities))

\* the texts reflect is called on: the callers' queries and the text
\* deep_reflect formats for its next layer (36 bytes in 4 words)
Inputs == Queries \cup QueryTexts \cup {[len |-> 36, words |-> 4]}

\* the confidences reflect can give a text, over all the draws of its sampler
ReflectConfidences ==
    [input \in Inputs |->
        {reflect(<<>>, input, rs).confidence : rs \in [1..NumSamples -> RGrid]}]

\* ------------------------------------------------------------ engine.rs
\* analyze_complexity without the .min(1.0) on complexity_score
analyze_complexity_uncapped(id, query) ==
    ReasoningStep(id, "Query", ConfOne - (3 * query.words * ConfOne) \div 500)

\* analyze_complexity that counts bytes instead of whitespace-separated words
analyze_complexity_bytes(id, query) ==
    ReasoningStep(id, "Query", ConfOne - (3 * Min(query.len, 50) * ConfOne) \div 500)

analyze_complexity(id, query) ==
    LET word_count == query.words
        \* complexity_score = min(1, word_count / 50), kept in fiftieths
        complexity_score == Min(word_count, 50)
    IN  ReasoningStep(id, "Query", ConfOne - (3 * complexity_score * ConfOne) \div 500)

\* meta_reason that divides by the length the list will have with the meta step
meta_reason_off_by_one(id, steps) ==
    ReasoningStep(id, "Reasoning",
        SumSeq([i \in 1..Len(steps) |-> steps[i].confidence]) \div (Len(steps) + 1))

meta_reason(id, steps) ==
    LET avg_confidence ==
            SumSeq([i \in 1..Len(steps) |-> steps[i].confidence]) \div Len(steps)
    IN  ReasoningStep(id, "Reasoning", avg_confidence)


\* ------------------------------------------------------------ model.rs (ReflectionModel)
\* a Suggestion without its fresh Uuid; description is represented by the
\* error label and count it is formatted from
Suggestion(suggestion_type, error_type, count, priority) ==
    [suggestion_type |-> suggestion_type, error_type |-> error_type,
     count |-> count, priority |-> priority]

\* the two most recent confidences only (.take(2))
RecentTwo(history) == [i \in 1..2 |-> history[Len(history) + 1 - i]]

\* the three most recent confidences, most recent first
Recent(history) == [i \in 1..3 |-> history[Len(history) + 1 - i]]

\* the average taken over the three oldest entries (the .rev() forgotten)
LowOldestConfidence(history) ==
    /\ Len(history) >= 3
    /\ 10 * (history[1] + history[2] + history[3]) < 6 * ConfOne * 3

\* avg < 0.6 over the three most recent entries
LowRecentConfidence(history) ==
    /\ Len(history) >= 3
    /\ 10 * SumSeq(Recent(history)) < 6 * ConfOne * 3

ConfidenceSuggestions(history) ==
    IF LowRecentConfidence(history)
    THEN << Suggestion("IncreaseConfidence", "", 0, (8 * ConfOne) \div 10) >>
    ELSE << >>

\* labels whose counter exceeds 3
RecurringErrors(errors) == {l \in DOMAIN errors : errors[l] > 3}

\* the orders in which a HashMap may enumerate the keys in S
Enumerations(S) ==
    {e \in [1..Cardinality(S) -> S] : \A i, j \in 1..Cardinality(S) : e[i] = e[j] => i = j}

ErrorSuggestions(errors, order) ==
    [i \in 1..Len(order) |->
        Suggestion("FixRecurringError", order[i], errors[order[i]], (9 * ConfOne) \div 10)]

\* every list ReflectionModel::generate_suggestions can build once it has
\* cleared the old one
generate_suggestions(history, errors) ==
    {ConfidenceSuggestions(history) \o ErrorSuggestions(errors, order) :
        order \in Enumerations(RecurringErrors(errors))}

\* generate_suggestions that does not clear the old list first
clear_skipped(suggestions) == suggestions

\* self.improvement_suggestions.clear()
clear(suggestions) == << >>

\* the lists a generate_suggestions() call may leave where suggestions was
Regenerated(suggestions, history, errors) ==
    {clear(suggestions) \o pushed : pushed \in generate_suggestions(history, errors)}

\* record_error that inserts 1 instead of incrementing the entry
record_error_overwrite(errors, error_type) ==
    [errors EXCEPT ![error_type] = 1]

\* ReflectionModel::record_error on the map; an absent label counts 0
record_error(errors, error_type) ==
    [errors EXCEPT ![error_type] = @ + 1]

TotalErrors(errors) ==
    LET labels == DOMAIN errors
        RECURSIVE Sum(_)
        Sum(S) == IF S = {} THEN 0
                  ELSE LET l == CHOOSE x \in S : TRUE IN errors[l] + Sum(S \ {l})
    IN  Sum(labels)

\* ReflectionModel::get_insights
get_insights(trace, history, errors, suggestions) ==
    [total_steps |-> Len(trace),
     average_confidence |-> IF history # <<>> THEN SumSeq(history) \div Len(history) ELSE 0,
     total_errors |-> TotalErrors(errors),
     unique_error_types |-> Cardinality({l \in DOMAIN errors : errors[l] > 0}),
     suggestions_count |-> Len(suggestions)]

\* ------------------------------------------------------------ govern.rs
\* ReflectionRules; its f32 fields are fixed point with ConfOne standing for 1.0
ReflectionRules(min_average_confidence, max_error_rate, min_reasoning_steps, min_suggestion_priority, min_quality_score) ==
    [min_average_confidence |-> min_average_confidence,
     max_error_rate |-> max_error_rate,
     min_reasoning_steps |-> min_reasoning_steps,
     min_suggestion_priority |-> min_suggestion_priority,
     min_quality_score |-> min_quality_score]

\* ReflectionRules::default(): 0.7, 0.2, 3, 0.6, 0.75
DefaultRules ==
    ReflectionRules((7 * ConfOne) \div 10, (2 * ConfOne) \div 10, 3,
                    (6 * ConfOne) \div 10, (75 * ConfOne) \div 100)

\* the rules a caller may hand to ReflectionGovernance::new: the defaults, the
\* strict ones of test_custom_rules (0.9, 0.1, 5, 0.8, 0.85) and lenient ones
\* (0.5, 0.5, 1, 0.9, 0.3)
RuleSets ==
    {DefaultRules,
     ReflectionRules((9 * ConfOne) \div 10, ConfOne \div 10, 5,
                     (8 * ConfOne) \div 10, (85 * ConfOne) \div 100),
     ReflectionRules(ConfOne \div 2, ConfOne \div 2, 1,
                     (9 * ConfOne) \div 10, (3 * ConfOne) \div 10)}

\* a ReflectionModel value as the governance functions are handed it
ReflectionModel(trace, history, errors, suggestions) ==
    [reasoning_trace |-> trace, confidence_history |-> history,
     error_patterns |-> errors, improvement_suggestions |-> suggestions]

\* validate_reflection, lines 28-32: avg_confidence
AverageConfidence(model) ==
    IF model.confidence_history # <<>>
    THEN SumSeq(model.confidence_history) \div Len(model.confidence_history)
    ELSE 0

\* validate_reflection, lines 34-39: the errors it collects
ValidationErrors(r, model) ==
    IF AverageConfidence(model) < r.min_average_confidence
    THEN << "Average confidence below minimum" >>
    ELSE << >>

\* validate_reflection, lines 42-63: the warnings it collects; error_rate is
\* total_errors / trace length, or 0.0 on an empty trace
ValidationWarnings(r, model) ==
    LET total_errors == TotalErrors(model.error_patterns)
        n == Len(model.reasoning_trace)
        rate_exceeds == IF n > 0
                        THEN total_errors * ConfOne > r.max_error_rate * n
                        ELSE 0 > r.max_error_rate
    IN  (IF rate_exceeds THEN << "Error rate exceeds maximum" >> ELSE << >>)
        \o (IF n < r.min_reasoning_steps
            THEN << "Reasoning steps below minimum" >> ELSE << >>)

\* validate_reflection in which a warning makes the model invalid
validate_reflection_warnings_count(r, model) ==
    [kind |-> "validation", thread |-> NoThread,
     valid |-> ValidationErrors(r, model) = <<>> /\ ValidationWarnings(r, model) = <<>>,
     errors |-> ValidationErrors(r, model),
     warnings |-> ValidationWarnings(r, model),
     requires_review |-> \/ ValidationWarnings(r, model) # <<>>
                         \/ AverageConfidence(model) < (7 * ConfOne) \div 10]

\* validate_reflection that reviews below the configured minimum, not below 0.7
validate_reflection_one_threshold(r, model) ==
    [kind |-> "validation", thread |-> NoThread,
     valid |-> ValidationErrors(r, model) = <<>>,
     errors |-> ValidationErrors(r, model),
     warnings |-> ValidationWarnings(r, model),
     requires_review |-> \/ ValidationWarnings(r, model) # <<>>
                         \/ AverageConfidence(model) < r.min_average_confidence]

\* ReflectionGovernance::validate_reflection
validate_reflection(r, model) ==
    [kind |-> "validation", thread |-> NoThread,
     valid |-> ValidationErrors(r, model) = <<>>,
     errors |-> ValidationErrors(r, model),
     warnings |-> ValidationWarnings(r, model),
     requires_review |-> \/ ValidationWarnings(r, model) # <<>>
                         \/ AverageConfidence(model) < (7 * ConfOne) \div 10]

\* ApprovedSuggestion
ApprovedSuggestion(suggestion) ==
    [suggestion |-> suggestion, approved |-> TRUE, reason |-> "Meets priority threshold"]

\* approve_suggestions that drops a priority equal to the threshold
approve_suggestions_above(r, suggestions) ==
    LET kept == SelectSeq(suggestions, LAMBDA s : s.priority > r.min_suggestion_priority)
    IN  [i \in 1..Len(kept) |-> ApprovedSuggestion(kept[i])]

\* ReflectionGovernance::approve_suggestions
approve_suggestions(r, suggestions) ==
    LET kept == SelectSeq(suggestions, LAMBDA s : s.priority >= r.min_suggestion_priority)
    IN  [i \in 1..Len(kept) |-> ApprovedSuggestion(kept[i])]

\* QualityReport
QualityReport(r, confidence_score, error_score, completeness_score) ==
    LET overall_quality == (confidence_score + error_score + completeness_score) \div 3
    IN  [kind |-> "quality", thread |-> NoThread,
         overall_quality |-> overall_quality,
         confidence_score |-> confidence_score,
         error_score |-> error_score,
         completeness_score |-> completeness_score,
         meets_standards |-> overall_quality >= r.min_quality_score]

\* check_quality without the .min(1.0) on completeness_score
check_quality_uncapped(r, model) ==
    LET insights == get_insights(model.reasoning_trace, model.confidence_history,
                                 model.error_patterns, model.improvement_suggestions)
    IN  QualityReport(r, insights.average_confidence,
            ConfOne - (insights.total_errors * ConfOne) \div (insights.total_steps + 1),
            (insights.total_steps * ConfOne) \div r.min_reasoning_steps)

\* ReflectionGovernance::check_quality
check_quality(r, model) ==
    LET insights == get_insights(model.reasoning_trace, model.confidence_history,
                                 model.error_patterns, model.improvement_suggestions)
        confidence_score == insights.average_confidence
        error_score ==
            ConfOne - (insights.total_errors * ConfOne) \div (insights.total_steps + 1)
        completeness_score ==
            Min((insights.total_steps * ConfOne) \div r.min_reasoning_steps, ConfOne)
    IN  QualityReport(r, confidence_score, error_score, completeness_score)

\* ------------------------------------------------------------ model.rs (add_step)
\* ReflectionModel::add_step: what it leaves in confidence_history and
\* in reasoning_trace
\* add_step without the push onto confidence_history
add_step_history_dropped(history, step) == history
add_step_history(history, step) == Append(history, step.confidence)
\* add_step that inserts at the front of the trace
add_step_trace_front(trace, step) == <<step>> \o trace
\* add_step that pushes the step twice
add_step_trace_twice(trace, step) == Append(Append(trace, step), step)
add_step_trace(trace, step) == Append(trace, step)

\* ------------------------------------------------------------ engine.rs (results)
\* Ok(ReflectionResult { steps, final_confidence: meta_step.confidence, insights })
ReflectionResult(pass_steps, insights) ==
    [kind |-> "reflection", thread |-> NoThread, steps |-> pass_steps,
     final_confidence |-> pass_steps[Len(pass_steps)].confidence, insights |-> insights]

\* DeepReflectionResult { layers, final_depth: reflection_layers.len() }
DeepReflectionResult(reflection_layers) ==
    [kind |-> "deep", thread |-> NoThread, layers |-> reflection_layers, final_depth |-> Len(reflection_layers)]

\* format!("Reflect on: confidence={:.2}, steps={}", ..): four words; the
\* confidence prints as four characters and the step count as one per digit
Digits(n) == IF n < 10 THEN 1 ELSE IF n < 100 THEN 2 ELSE 3
SyntheticQuery(res) == [len |-> 12 + 11 + 4 + 2 + 6 + Digits(Len(res.steps)), words |-> 4]

\* the break taken on a low confidence instead of a high one
HighEnoughInverted(res) == 10 * res.final_confidence < 9 * ConfOne

\* if result.final_confidence > 0.9 { break; }
HighEnough(res) == 10 * res.final_confidence > 9 * ConfOne

\* ------------------------------------------------------------ rd.rs
\* RDPoint::new; rate and distortion are in hundredths
RDPoint(rate, distortion, batch_size) ==
    [rate |-> rate, distortion |-> distortion, batch_size |-> batch_size]

None == [some |-> FALSE]
Some(value) == [some |-> TRUE, value |-> value]

\* RDCurve::new
RDCurve(points, optimal_point) == [points |-> points, optimal_point |-> optimal_point]

\* the closure of compute_optimal: score_a.partial_cmp(&score_b) is Greater,
\* with score = rate / (distortion + 1e-6), compared by cross multiplication
\* in units of 1e-6
ScoreGreater(a, b) ==
    a.rate * (b.distortion * 10000 + 1) > b.rate * (a.distortion * 10000 + 1)

\* Iterator::min_by: the first of the elements the closure finds least
RECURSIVE min_by(_, _, _)
min_by(points, idx, least) ==
    IF idx > Len(points) THEN least
    ELSE min_by(points, idx + 1, IF ScoreGreater(least, points[idx]) THEN points[idx] ELSE least)

\* RDCurve::compute_optimal
compute_optimal(self) ==
    IF self.points = <<>> THEN self
    ELSE [self EXCEPT !.optimal_point = Some(min_by(self.points, 2, self.points[1]))]

\* RDCurve::add_point
add_point(self, point) == [self EXCEPT !.points = Append(@, point)]

\* ------------------------------------------------------------ metrics.rs
\* usize is UsizeBits wide here
UsizeBits == 4
UsizeMax == 2 ^ UsizeBits - 1

\* an arithmetic result in usize: with overflow checks (debug builds) a value
\* out of range panics, without them (release builds) it wraps
Wrapped(x) == x % (UsizeMax + 1)
Overflows(x) == x < 0 \/ x > UsizeMax

\* GraphMetrics::compute; avg_degree and density are in thousandths
compute(node_count, edge_count, overflow_checks) ==
    LET twice == 2 * edge_count
        avg_degree == IF node_count > 0 THEN (1000 * Wrapped(twice)) \div node_count ELSE 0
        less_one == node_count - 1
        product == node_count * Wrapped(less_one)
        max_edges == Wrapped(product) \div 2
        density == IF max_edges > 0 THEN (1000 * edge_count) \div max_edges ELSE 0
    IN  IF overflow_checks /\ node_count > 0 /\ Overflows(twice)
        THEN Panic("attempt to multiply with overflow")
        ELSE IF overflow_checks /\ Overflows(less_one)
        THEN Panic("attempt to subtract with overflow")
        ELSE IF overflow_checks /\ Overflows(product)
        THEN Panic("attempt to multiply with overflow")
        ELSE Ok([node_count |-> node_count, edge_count |-> edge_count,
                 avg_degree |-> avg_degree, density |-> density,
                 coverage_score |-> 0, provenance_score |-> 0])

\* ------------------------------------------------------------ state
VARIABLES
    reasoning_trace,          \* ReflectionModel.reasoning_trace
    confidence_history,       \* ReflectionModel.confidence_history
    error_patterns,           \* ReflectionModel.error_patterns (0 = no entry)
    improvement_suggestions,  \* ReflectionModel.improvement_suggestions
    writer,                   \* the thread holding model.write(), or NoThread
    readers,                  \* the threads holding model.read()
    reflection_depth,         \* ReflectionEngine.reflection_depth
    rules,                    \* ReflectionGovernance.rules
    sampler,                  \* the QuantumSampler (of the reflector, or a client's own)
    curve,                    \* a client's RDCurve
    pc,                       \* where each caller is
    op,                       \* the engine method each caller is in
    query,                    \* reflect_on_query's query / deep_reflect's current_query
    steps,                    \* reflect_on_query's local steps
    added,                    \* how many of steps the for loop has passed to add_step
    depth,                    \* deep_reflect's loop variable
    layers,                   \* deep_reflect's reflection_layers
    arg,                      \* record_error's error_type
    next_id,                  \* per caller, the pass its next Uuids belong to
    returned,                 \* the value the step just taken handed back to a caller
    budget,                   \* the passes and record_error calls the callers may still ask for
    completed                 \* reflect_on_query executions that have returned

model_vars == <<reasoning_trace, confidence_history, error_patterns, improvement_suggestions>>
lock_vars == <<writer, readers>>
frame_vars == <<query, steps, added, depth, layers, arg>>
config_vars == <<reflection_depth, rules, sampler, curve>>
vars == <<model_vars, lock_vars, config_vars, pc, op, frame_vars, next_id, returned, budget,
          completed>>

NoQuery == [len |-> 0, words |-> 0]
NoResult == [kind |-> "none"]

\* the engine as ReflectionEngine::new leaves it, but for its sampler, and a
\* governance made with one of the given rules, with callers that may ask for
\* one of the given workloads
EngineWith(workloads, rule_sets) ==
    /\ reasoning_trace = <<>>
    /\ confidence_history = <<>>
    /\ error_patterns = [l \in Labels |-> 0]
    /\ improvement_suggestions = <<>>
    /\ writer = NoThread
    /\ readers = {}
    /\ reflection_depth \in 0..MaxDepth
    /\ rules \in rule_sets
    /\ pc = [t \in Threads |-> "idle"]
    /\ op = [t \in Threads |-> "none"]
    /\ query = [t \in Threads |-> NoQuery]
    /\ steps = [t \in Threads |-> <<>>]
    /\ added = [t \in Threads |-> 0]
    /\ depth = [t \in Threads |-> 0]
    /\ layers = [t \in Threads |-> <<>>]
    /\ arg = [t \in Threads |-> ""]
    /\ next_id = [t \in Threads |-> 1]
    /\ returned = NoResult
    /\ budget \in workloads
    /\ completed = 0

\* the same with the sampler QuantumReflector::new makes, QuantumSampler::new(0.5, 100)
\* (NumSamples standing for the 100), and an RDCurve::new() nobody touches
InitWith(workloads, rule_sets) ==
    /\ EngineWith(workloads, rule_sets)
    /\ sampler = QuantumSampler(5, NumSamples)
    /\ curve = RDCurve(<<>>, None)

\* ReflectionApiState::new: the governance has the default rules
Init == InitWith(Workloads, {DefaultRules})

\* ------------------------------------------------------------ the lock
\* std::sync::RwLock: write() waits for the lock to be free, read() waits
\* for the writer to leave
\* a write() that does not wait for another writer
CanWriteShared(t) == readers = {}
CanWrite(t) == writer = NoThread /\ readers = {}
\* a read() that does not wait for the writer
CanReadAnytime(t) == TRUE
CanRead(t) == writer = NoThread

\* ------------------------------------------------------------ the callers
InPass(t) == op[t] \in {"reflect_on_query", "deep_reflect"}

\* the call of t returns value: its frame is gone
Return(t, value) ==
    /\ returned' = [value EXCEPT !.thread = t]
    /\ pc' = [pc EXCEPT ![t] = "idle"]
    /\ op' = [op EXCEPT ![t] = "none"]
    /\ query' = [query EXCEPT ![t] = NoQuery]
    /\ steps' = [steps EXCEPT ![t] = <<>>]
    /\ added' = [added EXCEPT ![t] = 0]
    /\ depth' = [depth EXCEPT ![t] = 0]
    /\ layers' = [layers EXCEPT ![t] = <<>>]
    /\ arg' = [arg EXCEPT ![t] = ""]

\* t moves on inside its call
Goto(t, label) ==
    /\ pc' = [pc EXCEPT ![t] = label]
    /\ returned' = NoResult

\* a caller enters ReflectionEngine::reflect_on_query with one of texts
CallReflectOn(t, texts) ==
    /\ pc[t] = "idle"
    /\ budget.passes >= 1
    /\ \E q \in texts : query' = [query EXCEPT ![t] = q]
    /\ budget' = [budget EXCEPT !.passes = @ - 1]
    /\ op' = [op EXCEPT ![t] = "reflect_on_query"]
    /\ Goto(t, "steps")
    /\ UNCHANGED <<model_vars, lock_vars, config_vars, steps, added, depth, layers, arg, next_id,
                   completed>>

CallReflect(t) == CallReflectOn(t, Queries)

\* a caller enters ReflectionEngine::deep_reflect
CallDeepReflect(t) ==
    /\ pc[t] = "idle"
    /\ budget.passes >= reflection_depth
    /\ \E q \in Queries : query' = [query EXCEPT ![t] = q]
    /\ budget' = [budget EXCEPT !.passes = @ - reflection_depth]
    /\ op' = [op EXCEPT ![t] = "deep_reflect"]
    /\ Goto(t, "for")
    /\ UNCHANGED <<model_vars, lock_vars, config_vars, steps, added, depth, layers, arg, next_id,
                   completed>>

\* a caller enters ReflectionEngine::record_error
CallRecordError(t) ==
    /\ pc[t] = "idle"
    /\ budget.errors >= 1
    /\ \E l \in Labels : arg' = [arg EXCEPT ![t] = l]
    /\ budget' = [budget EXCEPT !.errors = @ - 1]
    /\ op' = [op EXCEPT ![t] = "record_error"]
    /\ Goto(t, "write_lock")
    /\ UNCHANGED <<model_vars, lock_vars, config_vars, query, steps, added, depth, layers,
                   next_id, completed>>

\* a caller enters one of the calls that only read the model: get_insights,
\* get_suggestions, or engine.model.read() as the tests and the check_quality
\* handler do, the handler to run the governance's check_quality on what it
\* reads; they differ only in what they hand back (ReadResults)
CallRead(t) ==
    /\ pc[t] = "idle"
    /\ op' = [op EXCEPT ![t] = "read"]
    /\ Goto(t, "read_lock")
    /\ UNCHANGED <<model_vars, lock_vars, config_vars, frame_vars, next_id, budget, completed>>

\* reflect_on_query, lines 25-37: the three sub-steps, on the caller's own stack
ComputeSteps(t) ==
    /\ pc[t] = "steps"
    /\ \E confidence \in ReflectConfidences[query[t]] :
         LET complexity_step == analyze_complexity(<<t, next_id[t], 1>>, query[t])
             quantum_step == ReasoningStep(<<t, next_id[t], 2>>, "Validation", confidence)
             meta_step == meta_reason(<<t, next_id[t], 3>>, <<complexity_step, quantum_step>>)
         IN  steps' = [steps EXCEPT ![t] = <<complexity_step, quantum_step, meta_step>>]
    /\ next_id' = [next_id EXCEPT ![t] = @ + 1]
    /\ added' = [added EXCEPT ![t] = 0]
    /\ Goto(t, "write_lock")
    /\ UNCHANGED <<model_vars, lock_vars, config_vars, op, query, depth, layers, arg, budget,
                   completed>>

\* self.model.write()
AcquireWrite(t) ==
    /\ pc[t] = "write_lock"
    /\ CanWrite(t)
    /\ writer' = t
    /\ Goto(t, "locked")
    /\ UNCHANGED <<model_vars, readers, config_vars, op, frame_vars, next_id, budget, completed>>

\* one turn of `for step in &steps { model.add_step(step.clone()) }`
AddStep(t) ==
    /\ pc[t] = "locked"
    /\ InPass(t)
    /\ added[t] < Len(steps[t])
    /\ reasoning_trace' = add_step_trace(reasoning_trace, steps[t][added[t] + 1])
    /\ confidence_history' = add_step_history(confidence_history, steps[t][added[t] + 1])
    /\ added' = [added EXCEPT ![t] = @ + 1]
    /\ Goto(t, "locked")
    /\ UNCHANGED <<error_patterns, improvement_suggestions, lock_vars, config_vars, op,
                   query, steps, depth, layers, arg, next_id, budget, completed>>

\* the block without its generate_suggestions() call
GenerateSuggestionsSkipped(t) ==
    /\ pc[t] = "locked"
    /\ InPass(t)
    /\ added[t] = Len(steps[t])
    /\ Goto(t, "unlock")
    /\ UNCHANGED <<model_vars, lock_vars, config_vars, op, frame_vars, next_id, budget, completed>>

\* model.generate_suggestions() at the end of the block
GenerateSuggestions(t) ==
    /\ pc[t] = "locked"
    /\ InPass(t)
    /\ added[t] = Len(steps[t])
    /\ improvement_suggestions' \in
           Regenerated(improvement_suggestions, confidence_history, error_patterns)
    /\ Goto(t, "unlock")
    /\ UNCHANGED <<reasoning_trace, confidence_history, error_patterns, lock_vars,
                   config_vars, op, frame_vars, next_id, budget, completed>>

\* ReflectionEngine::record_error under the write lock
RecordError(t) ==
    /\ pc[t] = "locked"
    /\ op[t] = "record_error"
    /\ error_patterns' = record_error(error_patterns, arg[t])
    /\ Goto(t, "unlock")
    /\ UNCHANGED <<reasoning_trace, confidence_history, improvement_suggestions, lock_vars,
                   config_vars, op, frame_vars, next_id, budget, completed>>

\* reflect_on_query without the block around its write guard: the guard is
\* still held when self.get_insights() asks for the read lock
ReleaseWriteKept(t) ==
    /\ pc[t] = "unlock"
    /\ writer = t
    /\ IF InPass(t)
       THEN Goto(t, "read_lock") /\ UNCHANGED <<op, frame_vars, writer>>
       ELSE writer' = NoThread /\ Return(t, [kind |-> "record_error", thread |-> t])
    /\ UNCHANGED <<model_vars, readers, config_vars, next_id, budget, completed>>

\* the write guard is dropped; reflect_on_query goes on to self.get_insights(),
\* record_error returns
ReleaseWrite(t) ==
    /\ pc[t] = "unlock"
    /\ writer = t
    /\ writer' = NoThread
    /\ IF InPass(t)
       THEN Goto(t, "read_lock") /\ UNCHANGED <<op, frame_vars>>
       ELSE Return(t, [kind |-> "record_error", thread |-> t])
    /\ UNCHANGED <<model_vars, readers, config_vars, next_id, budget, completed>>

\* self.model.read()
AcquireRead(t) ==
    /\ pc[t] = "read_lock"
    /\ CanRead(t)
    /\ readers' = readers \cup {t}
    /\ Goto(t, "reading")
    /\ UNCHANGED <<model_vars, writer, config_vars, op, frame_vars, next_id, budget, completed>>

\* what a reader copies out of the model while it holds the read guard
Snapshot ==
    [kind |-> "model", thread |-> NoThread, reasoning_trace |-> reasoning_trace,
     confidence_history |-> confidence_history, error_patterns |-> error_patterns,
     improvement_suggestions |-> improvement_suggestions]

\* the model as &*model hands it to the governance
Model ==
    ReflectionModel(reasoning_trace, confidence_history, error_patterns,
                    improvement_suggestions)

Insights ==
    get_insights(reasoning_trace, confidence_history, error_patterns, improvement_suggestions)

\* what the call of t may hand back when it has read the model
ReadResults(t) ==
    IF op[t] = "read"
    THEN {[kind |-> "insights", thread |-> t, insights |-> Insights],
          [kind |-> "suggestions", thread |-> t, suggestions |-> improvement_suggestions],
          Snapshot,
          check_quality(rules, Model)}
    ELSE {ReflectionResult(steps[t], Insights)}

\* the read guard is dropped and the call that took it goes on: get_insights,
\* get_suggestions and the model readers return what they read; reflect_on_query
\* returns its ReflectionResult, to its caller or to deep_reflect's loop body
ReleaseRead(t) ==
    /\ pc[t] = "reading"
    /\ t \in readers
    /\ readers' = readers \ {t}
    /\ IF op[t] = "deep_reflect"
       THEN LET res == ReflectionResult(steps[t], Insights)
            IN  /\ layers' = [layers EXCEPT ![t] = Append(@, res)]
                /\ query' = [query EXCEPT ![t] = SyntheticQuery(res)]
                /\ steps' = [steps EXCEPT ![t] = <<>>]
                /\ added' = [added EXCEPT ![t] = 0]
                /\ IF HighEnough(res)
                   THEN Goto(t, "return") /\ UNCHANGED depth
                   ELSE Goto(t, "for") /\ depth' = [depth EXCEPT ![t] = @ + 1]
                /\ UNCHANGED <<op, arg>>
       ELSE \E value \in ReadResults(t) : Return(t, value)
    /\ completed' = IF InPass(t) THEN completed + 1 ELSE completed
    /\ UNCHANGED <<model_vars, writer, config_vars, next_id, budget>>

\* the loop over 0..=self.reflection_depth
DeepForInclusive(t) ==
    /\ pc[t] = "for"
    /\ op[t] = "deep_reflect"
    /\ Goto(t, IF depth[t] <= reflection_depth THEN "steps" ELSE "return")
    /\ UNCHANGED <<model_vars, lock_vars, config_vars, op, frame_vars, next_id, budget, completed>>

\* for depth in 0..self.reflection_depth
DeepFor(t) ==
    /\ pc[t] = "for"
    /\ op[t] = "deep_reflect"
    /\ Goto(t, IF depth[t] < reflection_depth THEN "steps" ELSE "return")
    /\ UNCHANGED <<model_vars, lock_vars, config_vars, op, frame_vars, next_id, budget, completed>>

\* deep_reflect returns; the passes it asked for and did not run are free again
DeepReturn(t) ==
    /\ pc[t] = "return"
    /\ op[t] = "deep_reflect"
    /\ Return(t, DeepReflectionResult(layers[t]))
    /\ budget' = [budget EXCEPT !.passes = @ + (reflection_depth - Len(layers[t]))]
    /\ UNCHANGED <<model_vars, lock_vars, config_vars, next_id, completed>>

\* a step of a reflect_on_query or read call in progress
ReflectStep(t) ==
    \/ ComputeSteps(t)
    \/ AcquireWrite(t)
    \/ AddStep(t)
    \/ GenerateSuggestions(t)
    \/ ReleaseWrite(t)
    \/ AcquireRead(t)
    \/ ReleaseRead(t)

\* a step of a reflect_on_query, deep_reflect or read call in progress
PassStep(t) ==
    \/ ReflectStep(t)
    \/ DeepFor(t)
    \/ DeepReturn(t)

\* a step of a call in progress
Step(t) == PassStep(t) \/ RecordError(t)

\* a caller starts a call
Call(t) ==
    \/ CallReflect(t)
    \/ CallDeepReflect(t)
    \/ CallRecordError(t)
    \/ CallRead(t)

Next == \E t \in Threads : Call(t) \/ Step(t)

Spec == Init /\ [][Next]_vars


\* the runs in which deep reflections compete with each other for the lock,
\* as writers and (for the insights of each layer) as readers, the lock is
\* fairly scheduled and every caller's thread keeps running
DeepInit == InitWith({[passes |-> MaxDepth, errors |-> 0]}, {DefaultRules})

DeepNext ==
    \E t \in Threads :
        \/ CallDeepReflect(t)
        \/ PassStep(t)

FairSpec ==
    /\ DeepInit /\ [][DeepNext]_vars
    /\ \A t \in Threads :
         /\ WF_vars(PassStep(t))
         /\ SF_vars(AcquireWrite(t))
         /\ SF_vars(AcquireRead(t))

\* the runs in which the callers make every kind of call, the lock is fairly
\* scheduled and every caller's thread keeps running
CallsInit == InitWith({[passes |-> 1, errors |-> 1]}, {DefaultRules})

FairCallsSpec ==
    /\ CallsInit /\ [][Next]_vars
    /\ \A t \in Threads :
         /\ WF_vars(Step(t))
         /\ SF_vars(AcquireWrite(t))
         /\ SF_vars(AcquireRead(t))

\* the runs in which one reflect_on_query is made, on any of QueryTexts,
\* while the other caller may read
QueryInit == InitWith({[passes |-> 1, errors |-> 0]}, {DefaultRules})

QueryNext ==
    \E t \in Threads :
        \/ CallReflectOn(t, QueryTexts)
        \/ CallRead(t)
        \/ ReflectStep(t)

QuerySpec == QueryInit /\ [][QueryNext]_vars

\* ------------------------------------------------------------ the bare model
\* a client that owns a ReflectionModel and a ReflectionGovernance and calls
\* their public methods one after the other (test_governance_validation does
\* so through engine.model); no lock is involved
ModelInit == InitWith(ModelWorkloads, RuleSets) /\ reflection_depth = 0

\* what every call on the bare model leaves alone
ModelFrame == UNCHANGED <<lock_vars, config_vars, pc, op, frame_vars, next_id, completed>>

\* model.add_step(ReasoningStep::new(..)) with a confidence of the grid
ModelAddStep ==
    /\ budget.steps >= 1
    /\ \E c \in ConfidenceGrid :
         LET step == ReasoningStep(<<NoThread, Len(reasoning_trace) + 1, 0>>, "Retrieval",
                                   (c * ConfOne) \div 10)
         IN  /\ reasoning_trace' = add_step_trace(reasoning_trace, step)
             /\ confidence_history' = add_step_history(confidence_history, step)
    /\ budget' = [budget EXCEPT !.steps = @ - 1]
    /\ returned' = [kind |-> "add_step", thread |-> NoThread]
    /\ UNCHANGED <<error_patterns, improvement_suggestions>>
    /\ ModelFrame

\* model.record_error(label)
ModelRecordError ==
    /\ budget.errors >= 1
    /\ \E l \in Labels : error_patterns' = record_error(error_patterns, l)
    /\ budget' = [budget EXCEPT !.errors = @ - 1]
    /\ returned' = [kind |-> "record_error", thread |-> NoThread]
    /\ UNCHANGED <<reasoning_trace, confidence_history, improvement_suggestions>>
    /\ ModelFrame

\* model.generate_suggestions()
ModelGenerateSuggestions ==
    /\ improvement_suggestions' \in
           Regenerated(improvement_suggestions, confidence_history, error_patterns)
    /\ returned' = [kind |-> "generate_suggestions", thread |-> NoThread]
    /\ UNCHANGED <<reasoning_trace, confidence_history, error_patterns, budget>>
    /\ ModelFrame

\* model.get_insights()
ModelGetInsights ==
    /\ returned' = [kind |-> "insights", thread |-> NoThread, insights |-> Insights]
    /\ UNCHANGED <<model_vars, budget>>
    /\ ModelFrame

\* governance.validate_reflection(&model)
GovernValidate ==
    /\ returned' = validate_reflection(rules, Model)
    /\ UNCHANGED <<model_vars, budget>>
    /\ ModelFrame

\* governance.approve_suggestions(&model.improvement_suggestions)
GovernApprove ==
    /\ returned' = [kind |-> "approved", thread |-> NoThread,
                    approved |-> approve_suggestions(rules, improvement_suggestions)]
    /\ UNCHANGED <<model_vars, budget>>
    /\ ModelFrame

\* governance.check_quality(&model)
GovernCheckQuality ==
    /\ returned' = check_quality(rules, Model)
    /\ UNCHANGED <<model_vars, budget>>
    /\ ModelFrame

ModelNext ==
    \/ ModelAddStep
    \/ ModelRecordError
    \/ ModelGenerateSuggestions
    \/ ModelGetInsights
    \/ GovernValidate
    \/ GovernApprove
    \/ GovernCheckQuality

ModelSpec == ModelInit /\ [][ModelNext]_vars

\* ------------------------------------------------------------ library clients
\* what a call on a sampler, a reflector, a curve or the metrics leaves alone
LibraryFrame ==
    UNCHANGED <<model_vars, lock_vars, pc, op, frame_vars, next_id, completed>>

\* the client of a run that tries a function on an input makes that one call
OneCall == [passes |-> 0, errors |-> 0, calls |-> 1]
Calls ==
    /\ budget.calls >= 1
    /\ budget' = [budget EXCEPT !.calls = @ - 1]

\* a client that owns a QuantumSampler made with any of the temperatures and
\* sample counts (and, when it is the reflector's sampler, a QuantumReflector)
Samplers == {QuantumSampler(t, n) : t \in Temperatures, n \in 0..NumSamples}

SamplerInit ==
    /\ EngineWith({OneCall}, {DefaultRules})
    /\ reflection_depth = 0
    /\ sampler \in Samplers
    /\ curve = RDCurve(<<>>, None)

\* sampler.sample(&probabilities), the thread_rng giving the draws rs
SamplerSample ==
    /\ Calls
    /\ \E probabilities \in SampleVectors, rs \in [1..sampler.num_samples -> RGrid] :
         returned' = [kind |-> "sample", thread |-> NoThread,
                      probabilities |-> probabilities, rs |-> rs,
                      result |-> Ok(sample(probabilities, rs))]
    /\ UNCHANGED config_vars
    /\ LibraryFrame

AnnealVectors == UNION {[1..n -> {0, ProbOne \div 2, ProbOne}] : n \in 0..MaxDim}

\* sampler.anneal(&probabilities)
SamplerAnneal ==
    /\ Calls
    /\ \E probabilities \in AnnealVectors :
         returned' = [kind |-> "anneal", thread |-> NoThread,
                      probabilities |-> probabilities,
                      result |-> anneal(sampler, probabilities)]
    /\ UNCHANGED config_vars
    /\ LibraryFrame

WalkStates == UNION {[1..n -> {0, 1}] : n \in 0..MaxDim}
\* the row lengths of a matrix, square or not
Shapes == UNION {[1..rows -> 0..MaxDim + 1] : rows \in 0..MaxDim + 1}
\* a matrix of that shape: a piece of the identity, or all ones
Matrix(shape, fill) ==
    [j \in 1..Len(shape) |-> [i \in 1..shape[j] |-> IF fill = "ones" \/ i = j THEN 1 ELSE 0]]

\* sampler.quantum_walk_step(&current_state, &transition_matrix)
SamplerWalkStep ==
    /\ Calls
    /\ \E current_state \in WalkStates, shape \in Shapes, fill \in {"identity", "ones"} :
         returned' = [kind |-> "quantum_walk_step", thread |-> NoThread,
                      current_state |-> current_state,
                      transition_matrix |-> Matrix(shape, fill),
                      result |-> quantum_walk_step(current_state, Matrix(shape, fill))]
    /\ UNCHANGED config_vars
    /\ LibraryFrame

\* QuantumReflector::new().reflect(input): the probabilities it computes, the
\* samples its sampler draws from them and the step it returns
ReflectorReflect ==
    /\ Calls
    /\ sampler = QuantumSampler(5, NumSamples)
    /\ \E input \in Inputs, rs \in [1..sampler.num_samples -> RGrid] :
         returned' = [kind |-> "reflect", thread |-> NoThread, input |-> input,
                      probabilities |-> compute_probabilities(input),
                      samples |-> sample(compute_probabilities(input), rs),
                      result |-> Ok(reflect(<<>>, input, rs))]
    /\ UNCHANGED config_vars
    /\ LibraryFrame

SamplerNext ==
    \/ SamplerSample
    \/ SamplerAnneal
    \/ SamplerWalkStep
    \/ ReflectorReflect

SamplerSpec == SamplerInit /\ [][SamplerNext]_vars

\* a client that owns an RDCurve, adds points to it and asks for the optimum
CurveInit == InitWith({[passes |-> 0, errors |-> 0]}, {DefaultRules}) /\ reflection_depth = 0

\* curve.add_point(RDPoint::new(..))
CurveAddPoint ==
    /\ Len(curve.points) < MaxPoints
    /\ \E p \in RDPoints : curve' = add_point(curve, RDPoint(p[1], p[2], p[3]))
    /\ returned' = [kind |-> "add_point", thread |-> NoThread]
    /\ UNCHANGED <<reflection_depth, rules, sampler, budget>>
    /\ LibraryFrame

\* curve.compute_optimal()
CurveComputeOptimal ==
    /\ curve' = compute_optimal(curve)
    /\ returned' = [kind |-> "compute_optimal", thread |-> NoThread]
    /\ UNCHANGED <<reflection_depth, rules, sampler, budget>>
    /\ LibraryFrame

\* curve.get_optimal()
CurveGetOptimal ==
    /\ returned' = [kind |-> "get_optimal", thread |-> NoThread, result |-> curve.optimal_point]
    /\ UNCHANGED <<config_vars, budget>>
    /\ LibraryFrame

CurveNext ==
    \/ CurveAddPoint
    \/ CurveComputeOptimal
    \/ CurveGetOptimal

CurveSpec == CurveInit /\ [][CurveNext]_vars

\* a client that calls GraphMetrics::compute, in a build with or without
\* overflow checks
MetricsInit == InitWith({OneCall}, {DefaultRules}) /\ reflection_depth = 0

MetricsCompute ==
    /\ Calls
    /\ \E node_count \in 0..UsizeMax, edge_count \in 0..UsizeMax, overflow_checks \in BOOLEAN :
         returned' = [kind |-> "compute", thread |-> NoThread,
                      node_count |-> node_count, edge_count |-> edge_count,
                      overflow_checks |-> overflow_checks,
                      result |-> compute(node_count, edge_count, overflow_checks)]
    /\ UNCHANGED config_vars
    /\ LibraryFrame

MetricsNext == MetricsCompute

MetricsSpec == MetricsInit /\ [][MetricsNext]_vars

\* ------------------------------------------------------------ properties
\* the pass a step was made in, read off its id
PassOf(step) == <<step.id[1], step.id[2]>>

\* the kinds of the steps of a pass, in the order reflect_on_query makes them
PassKinds == <<"Query", "Validation", "Reasoning">>

\* trace holds whole passes only
WholePasses(trace) ==
    /\ Len(trace) % 3 = 0
    /\ \A k \in 0..((Len(trace) \div 3) - 1) :
         /\ PassOf(trace[3 * k + 1]) = PassOf(trace[3 * k + 2])
         /\ PassOf(trace[3 * k + 1]) = PassOf(trace[3 * k + 3])

\* suggestions is a list generate_suggestions leaves for this history, under
\* the error counters of now or of an earlier time
RegeneratedFor(history, errors, suggestions) ==
    \E e \in [DOMAIN errors -> 0..(MaxErrors + 1)] :
        /\ \A l \in DOMAIN errors : e[l] <= errors[l]
        /\ suggestions \in generate_suggestions(history, e)

\* the steps the passes that have not returned yet have added
AddedUnderWay ==
    LET RECURSIVE Sum(_)
        Sum(S) == IF S = {} THEN 0
                  ELSE LET t == CHOOSE x \in S : TRUE IN added[t] + Sum(S \ {t})
    IN  Sum(Threads)

\* C1: in every reachable state confidence_history is as long as
\* reasoning_trace and its i-th entry is the confidence of the i-th step.
C1_HistoryMatchesTrace ==
    /\ Len(confidence_history) = Len(reasoning_trace)
    /\ \A i \in 1..Len(reasoning_trace) :
         confidence_history[i] = reasoning_trace[i].confidence

\* steps were added, an error was recorded and suggestions were generated
C1_Witness ==
    /\ Len(reasoning_trace) >= 3
    /\ TotalErrors(error_patterns) >= 1
    /\ improvement_suggestions # <<>>

\* C2: whoever holds the read lock sees whole passes only (total_steps a
\* multiple of 3, each three steps from one pass) and a suggestion list that
\* generate_suggestions produced for exactly this trace; the values the
\* readers hand back say the same.
C2_ReadersSeeWholePasses ==
    /\ readers # {} =>
         /\ WholePasses(reasoning_trace)
         /\ RegeneratedFor(confidence_history, error_patterns, improvement_suggestions)
    /\ returned.kind = "insights" => returned.insights.total_steps % 3 = 0
    /\ returned.kind = "reflection" => returned.insights.total_steps % 3 = 0
    /\ returned.kind = "model" =>
         /\ WholePasses(returned.reasoning_trace)
         /\ RegeneratedFor(returned.confidence_history, returned.error_patterns,
                           returned.improvement_suggestions)

\* a reader holds the lock over a non-empty trace while a pass waits to write
C2_Witness ==
    /\ readers # {}
    /\ Len(reasoning_trace) >= 3
    /\ \E u \in Threads : InPass(u) /\ pc[u] = "write_lock"

\* C3: the steps of each pass lie at three consecutive positions of the trace
\* in the order Query, Validation, Reasoning, no pass is split or repeated,
\* and at most one caller is mutating the model at any time.
C3_PassesSerialize ==
    /\ \A i \in 1..Len(reasoning_trace) :
         LET j == (i - 1) % 3
             first == reasoning_trace[i - j]
         IN  /\ reasoning_trace[i].step_type = PassKinds[j + 1]
             /\ reasoning_trace[i].id = <<first.id[1], first.id[2], j + 1>>
    /\ \A i, j \in 1..Len(reasoning_trace) :
         reasoning_trace[i].id = reasoning_trace[j].id => i = j
    /\ Cardinality({t \in Threads : pc[t] \in {"locked", "unlock"}}) <= 1

\* one pass is half written while another caller's pass waits for the lock
C3_Witness ==
    \E t, u \in Threads :
        /\ t # u
        /\ InPass(t) /\ pc[t] = "locked" /\ added[t] = 1
        /\ InPass(u) /\ pc[u] = "write_lock"

\* C5: a reflect_on_query that returns hands back exactly three steps, of
\* kinds Query, Validation, Reasoning in that order, which are in the trace;
\* the trace holds three steps per pass that has returned plus the steps the
\* passes under way have added, so it is 3k long once k passes have returned
\* and none is under way.
C5_ThreeStepsPerPass ==
    /\ returned.kind = "reflection" =>
         /\ Len(returned.steps) = 3
         /\ \A i \in 1..3 : returned.steps[i].step_type = PassKinds[i]
         /\ \E k \in 0..((Len(reasoning_trace) \div 3) - 1) :
              \A i \in 1..3 : reasoning_trace[3 * k + i] = returned.steps[i]
    /\ \A t \in Threads :
         pc[t] = "return" => \A n \in 1..Len(layers[t]) : Len(layers[t][n].steps) = 3
    /\ Len(reasoning_trace) = 3 * completed + AddedUnderWay
    /\ (\A t \in Threads : ~InPass(t)) => Len(reasoning_trace) = 3 * completed

\* two passes have returned and no call is under way
C5_Witness ==
    /\ completed = 2
    /\ \A t \in Threads : pc[t] = "idle"
    /\ returned.kind = "reflection"


\* what deep_reflect must hand back: final_depth counts the layers, is not
\* above reflection_depth, and a positive reflection_depth gives a layer
DeepResultBounded(res) ==
    /\ res.final_depth = Len(res.layers)
    /\ res.final_depth <= reflection_depth
    /\ reflection_depth >= 1 => Len(res.layers) >= 1

\* C6: every deep_reflect call returns (under a fairly scheduled lock), and
\* what it returns has final_depth equal to the number of layers, at most
\* reflection_depth, and at least one layer when reflection_depth >= 1.
C6_DeepReflectTerminates ==
    /\ [](returned.kind = "deep" => DeepResultBounded(returned))
    /\ \A t \in Threads :
         (op[t] = "deep_reflect") ~> (returned.kind = "deep" /\ returned.thread = t)

\* a deep_reflect has run all of its two or more layers
C6_Witness ==
    /\ returned.kind = "deep"
    /\ reflection_depth >= 2
    /\ returned.final_depth = reflection_depth

\* C7: in what deep_reflect returns every layer but the last has a final
\* confidence of at most 0.9, and there are fewer layers than reflection_depth
\* only if the last layer's final confidence is above 0.9.
C7_StopsAtFirstHighLayer ==
    returned.kind = "deep" =>
        LET n == Len(returned.layers)
        IN  /\ \A i \in 1..(n - 1) : 10 * returned.layers[i].final_confidence <= 9 * ConfOne
            /\ n < reflection_depth =>
                 /\ n >= 1
                 /\ 10 * returned.layers[n].final_confidence > 9 * ConfOne

\* a deep_reflect stopped early, after a second layer that followed a first
\* layer of low confidence, or after its first layer
C7_Witness ==
    /\ returned.kind = "deep"
    /\ Len(returned.layers) >= 1
    /\ Len(returned.layers) < reflection_depth

\* C8, as claimed: whenever the model is not being written, the suggestion
\* list is what generate_suggestions derives from the current confidence
\* history and the current error map.
C8_NeverStale ==
    writer = NoThread =>
        improvement_suggestions \in generate_suggestions(confidence_history, error_patterns)

\* a pass reaches the end of its write block
Regenerates ==
    \E t \in Threads : InPass(t) /\ pc[t] = "locked" /\ pc'[t] = "unlock"

\* C8, amended: the suggestion list is what generate_suggestions derived from
\* the confidence history and the error map at the end of the latest pass
\* (empty before the first); every pass leaves exactly that list, and every
\* other step, record_error among them, leaves the list as it was.
C8_FreshAtEachPass ==
    [][ /\ Regenerates =>
             improvement_suggestions' \in generate_suggestions(confidence_history', error_patterns')
        /\ ~Regenerates => improvement_suggestions' = improvement_suggestions
        /\ returned'.kind = "suggestions" => returned'.suggestions = improvement_suggestions
      ]_vars

\* a pass that followed four record_error calls left a FixRecurringError
C8_Witness ==
    \E i \in 1..Len(improvement_suggestions) :
        /\ improvement_suggestions[i].suggestion_type = "FixRecurringError"
        /\ improvement_suggestions[i].count >= 4

\* s is a prefix of t
IsPrefix(s, t) == Len(s) <= Len(t) /\ \A i \in 1..Len(s) : s[i] = t[i]

\* C9: every step of the system leaves the old trace as a prefix of the new
\* one: no stored step is changed or removed, total_steps never decreases.
C9_TraceAppendOnly ==
    [][ /\ IsPrefix(reasoning_trace, reasoning_trace')
        /\ IsPrefix(confidence_history, confidence_history') ]_vars

\* a second pass has appended to the trace the first one left, and a reader
\* has copied the model out
C9_Witness ==
    /\ Len(reasoning_trace) >= 6
    /\ returned.kind = "model"
    /\ returned.reasoning_trace = reasoning_trace

\* final_confidence is the confidence of the third step, a Reasoning step,
\* which is the mean of the confidences of the Query and Validation steps
MeanOfTwo(res) ==
    /\ res.final_confidence = res.steps[3].confidence
    /\ res.steps[1].step_type = "Query"
    /\ res.steps[2].step_type = "Validation"
    /\ res.steps[3].step_type = "Reasoning"
    /\ 2 * res.steps[3].confidence = res.steps[1].confidence + res.steps[2].confidence

\* C10: for every pass, returned by reflect_on_query or kept as a layer by
\* deep_reflect, final_confidence equals the confidence of the Reasoning step,
\* which equals the mean of the Query and Validation steps' confidences.
C10_FinalIsMeanOfTwo ==
    /\ returned.kind = "reflection" => MeanOfTwo(returned)
    /\ returned.kind = "deep" =>
         \A i \in 1..Len(returned.layers) : MeanOfTwo(returned.layers[i])

\* a pass returned whose Query and Validation confidences differ
C10_Witness ==
    /\ returned.kind = "reflection"
    /\ returned.steps[1].confidence # returned.steps[2].confidence
    /\ returned.steps[2].confidence > 0

\* C11: whatever the text and whatever the sampler draws, a reflect_on_query
\* that returns hands back a non-empty step list and a final_confidence
\* strictly above 0 and at most 1.
C11_FinalConfidenceInRange ==
    returned.kind = "reflection" =>
        /\ returned.steps # <<>>
        /\ returned.final_confidence > 0
        /\ returned.final_confidence <= ConfOne

\* a pass on a text of 50 words or more whose sampler drew no index at all:
\* the lowest final confidence there is, 0.35
C11_Witness ==
    /\ returned.kind = "reflection"
    /\ returned.steps[2].confidence = 0
    /\ 10 * returned.steps[1].confidence = 7 * ConfOne
    /\ 100 * returned.final_confidence = 35 * ConfOne

\* C12: the first step of a pass is a Query step whose confidence is
\* 1 - 0.3 * min(1, word_count / 50) for the text's word count: 1.0 for no
\* word, 0.994 for one word, 1 - 0.006 * word_count below 50 words and 0.7
\* from 50 words on.
C12_QueryStepConfidence ==
    \A t \in Threads :
        (op[t] = "reflect_on_query" /\ steps[t] # <<>>) =>
            LET word_count == query[t].words
                confidence == steps[t][1].confidence
            IN  /\ steps[t][1].step_type = "Query"
                /\ word_count = 0 => confidence = ConfOne
                /\ word_count = 1 => 1000 * confidence = 994 * ConfOne
                /\ word_count < 50 => 1000 * (ConfOne - confidence) = 6 * word_count * ConfOne
                /\ word_count >= 50 => 10 * confidence = 7 * ConfOne

\* a pass on a text of 60 words has made its steps
C12_Witness ==
    \E t \in Threads :
        /\ op[t] = "reflect_on_query"
        /\ steps[t] # <<>>
        /\ query[t].words = 60

\* the positions of the suggestions of one type
OfType(suggestions, suggestion_type) ==
    {i \in 1..Len(suggestions) : suggestions[i].suggestion_type = suggestion_type}

\* C13: the list generate_suggestions leaves holds an IncreaseConfidence
\* suggestion exactly when the history has at least 3 entries and its 3 most
\* recent ones average strictly below 0.6; there is at most one, it has
\* priority 0.8 and it stands first, before every error-based suggestion.
C13_IncreaseConfidenceRule ==
    returned.kind = "generate_suggestions" =>
        LET n == Len(confidence_history)
            low == /\ n >= 3
                   /\ 10 * (confidence_history[n] + confidence_history[n - 1]
                               + confidence_history[n - 2]) < 18 * ConfOne
            inc == OfType(improvement_suggestions, "IncreaseConfidence")
        IN  /\ inc # {} <=> low
            /\ Cardinality(inc) <= 1
            /\ \A i \in inc :
                 i = 1 /\ 10 * improvement_suggestions[i].priority = 8 * ConfOne

\* generate_suggestions ran on the history [0.9, 0.5, 0.4, 0.3] and emitted it
C13_Witness ==
    /\ returned.kind = "generate_suggestions"
    /\ confidence_history = << (9 * ConfOne) \div 10, (5 * ConfOne) \div 10,
                               (4 * ConfOne) \div 10, (3 * ConfOne) \div 10 >>
    /\ OfType(improvement_suggestions, "IncreaseConfidence") = {1}

\* how often x occurs in the list
Occurrences(suggestions, x) ==
    Cardinality({i \in 1..Len(suggestions) : suggestions[i] = x})

\* the two lists hold the same suggestions, each as often
SameSuggestions(s1, s2) ==
    /\ Len(s1) = Len(s2)
    /\ \A i \in 1..Len(s1) : Occurrences(s1, s1[i]) = Occurrences(s2, s1[i])

\* C14: the list generate_suggestions leaves holds exactly one
\* FixRecurringError, of priority 0.9 and with the label's count, for every
\* label counted more than 3 times and none for the other labels; a second
\* call right after the first leaves the same suggestions (in the map's
\* enumeration order of that call), nothing twice.
C14_FixRecurringErrorRule ==
    [][ returned'.kind = "generate_suggestions" =>
          LET fix == OfType(improvement_suggestions', "FixRecurringError")
          IN  /\ \A l \in Labels :
                   Cardinality({i \in fix : improvement_suggestions'[i].error_type = l})
                       = IF error_patterns'[l] > 3 THEN 1 ELSE 0
              /\ \A i \in fix :
                   /\ 10 * improvement_suggestions'[i].priority = 9 * ConfOne
                   /\ improvement_suggestions'[i].count
                        = error_patterns'[improvement_suggestions'[i].error_type]
              /\ returned.kind = "generate_suggestions" =>
                   SameSuggestions(improvement_suggestions, improvement_suggestions')
      ]_vars

\* generate_suggestions ran with one label counted 4 times and the other 3
C14_Witness ==
    /\ returned.kind = "generate_suggestions"
    /\ error_patterns["E1"] = 4
    /\ error_patterns["E2"] = 3
    /\ Len(improvement_suggestions) = 1

\* a record_error call does its increment
RecordsError(t) == op[t] = "record_error" /\ pc[t] = "locked" /\ pc'[t] = "unlock"

\* C15: on a fresh engine every field of the insights is 0; from then on
\* total_steps is the trace length, suggestions_count the length of the
\* suggestion list, each record_error call adds exactly 1 to total_errors and
\* adds 1 to unique_error_types exactly when its label is new, no other step
\* changes these two, and get_insights hands back the insights of the model
\* it read.
C15_InsightsCount ==
    /\ Insights = [total_steps |-> 0, average_confidence |-> 0, total_errors |-> 0,
                   unique_error_types |-> 0, suggestions_count |-> 0]
    /\ [][\A before \in {Insights} :
           \A after \in {Insights'} :
               /\ after.total_steps = Len(reasoning_trace')
               /\ after.suggestions_count = Len(improvement_suggestions')
               /\ \A t \in Threads :
                    RecordsError(t) =>
                        /\ after.total_errors = before.total_errors + 1
                        /\ after.unique_error_types =
                               before.unique_error_types
                                   + (IF error_patterns[arg[t]] = 0 THEN 1 ELSE 0)
               /\ (\A t \in Threads : ~RecordsError(t)) =>
                    /\ after.total_errors = before.total_errors
                    /\ after.unique_error_types = before.unique_error_types
               /\ returned'.kind = "insights" => returned'.insights = before
          ]_vars

\* get_insights returned after a pass and after record_error calls with two
\* labels, one of them repeated
C15_Witness ==
    /\ returned.kind = "insights"
    /\ returned.insights.total_steps = 3
    /\ returned.insights.total_errors = 3
    /\ returned.insights.unique_error_types = 2

\* the mean of the history is at least / below bound (0 for an empty history)
MeanAtLeast(history, bound) ==
    IF history = <<>> THEN 0 >= bound ELSE SumSeq(history) >= bound * Len(history)

\* C16: validate_reflection returns valid = true exactly when its errors list
\* is empty, which is exactly when the mean of the confidence history (0 for
\* an empty one) is at least min_average_confidence, warnings or not.
C16_ValidIffMeanHighEnough ==
    returned.kind = "validation" =>
        /\ returned.valid <=> returned.errors = <<>>
        /\ returned.valid <=> MeanAtLeast(confidence_history, rules.min_average_confidence)

\* a model that is valid although it draws a warning
C16_Witness ==
    /\ returned.kind = "validation"
    /\ returned.valid
    /\ returned.warnings # <<>>
    /\ reasoning_trace # <<>>

\* C17: requires_review is true exactly when there is a warning or the mean
\* confidence is below 0.7, whatever min_average_confidence is; there is a
\* warning whenever the trace is shorter than min_reasoning_steps or the
\* errors per step exceed max_error_rate, so a model with fewer steps than
\* min_reasoning_steps always requires review.
C17_RequiresReview ==
    returned.kind = "validation" =>
        LET n == Len(reasoning_trace)
            total_errors == TotalErrors(error_patterns)
        IN  /\ returned.requires_review <=>
                 \/ returned.warnings # <<>>
                 \/ ~MeanAtLeast(confidence_history, (7 * ConfOne) \div 10)
            /\ n < rules.min_reasoning_steps => returned.warnings # <<>>
            /\ (n > 0 /\ total_errors * ConfOne > rules.max_error_rate * n) =>
                 returned.warnings # <<>>
            /\ n < rules.min_reasoning_steps => returned.requires_review

\* a valid model without warnings, under rules whose minimum is not 0.7,
\* requires review because its mean is below 0.7
C17_Witness ==
    /\ returned.kind = "validation"
    /\ rules.min_average_confidence # (7 * ConfOne) \div 10
    /\ returned.valid
    /\ returned.warnings = <<>>
    /\ returned.requires_review

\* C18, as claimed: check_quality on a model reached through the engine's
\* operations returns an overall_quality between 0 and 1.
C18_QualityInUnitRange ==
    returned.kind = "quality" =>
        /\ returned.overall_quality >= 0
        /\ returned.overall_quality <= ConfOne

\* q is a / b rounded down to a multiple of 1 / ConfOne
IsQuotient(q, a, b) == q * b <= a * ConfOne /\ a * ConfOne < (q + 1) * b

\* C19: check_quality returns confidence_score = the mean confidence,
\* error_score = 1 - total_errors / (total_steps + 1), completeness_score =
\* min(1, total_steps / min_reasoning_steps), overall_quality = the mean of
\* the three and meets_standards = (overall_quality >= min_quality_score); a
\* model without steps and errors gets 1/3 and fails the default rules.
C19_QualityFormula ==
    returned.kind = "quality" =>
        LET total_steps == Len(reasoning_trace)
            total_errors == TotalErrors(error_patterns)
            sum == returned.confidence_score + returned.error_score
                       + returned.completeness_score
        IN  /\ returned.confidence_score = Insights.average_confidence
            /\ IsQuotient(ConfOne - returned.error_score, total_errors, total_steps + 1)
            /\ IF total_steps >= rules.min_reasoning_steps
               THEN returned.completeness_score = ConfOne
               ELSE IsQuotient(returned.completeness_score, total_steps,
                               rules.min_reasoning_steps)
            /\ 3 * returned.overall_quality <= sum /\ sum < 3 * returned.overall_quality + 3
            /\ returned.meets_standards <=>
                 returned.overall_quality >= rules.min_quality_score
            /\ (total_steps = 0 /\ total_errors = 0) =>
                 /\ returned.overall_quality = ConfOne \div 3
                 /\ rules = DefaultRules => ~returned.meets_standards

\* check_quality ran on a model with more steps than min_reasoning_steps and
\* with an error
C19_Witness ==
    /\ returned.kind = "quality"
    /\ Len(reasoning_trace) > rules.min_reasoning_steps
    /\ TotalErrors(error_patterns) >= 1
    /\ returned.error_score < ConfOne

\* C20: approve_suggestions returns the suggestions whose priority is at
\* least min_suggestion_priority, all of them and no other, in the order it
\* was given them, each marked approved with the fixed justification; so
\* never more entries than it was given.
C20_ApprovedAreThoseAtOrAboveThreshold ==
    returned.kind = "approved" =>
        LET given == improvement_suggestions
            keep == {j \in 1..Len(given) : given[j].priority >= rules.min_suggestion_priority}
        IN  /\ Len(returned.approved) = Cardinality(keep)
            /\ Len(returned.approved) <= Len(given)
            /\ \A i \in 1..Len(returned.approved) :
                 /\ returned.approved[i].approved
                 /\ returned.approved[i].reason = "Meets priority threshold"
                 /\ \E j \in keep :
                      /\ returned.approved[i].suggestion = given[j]
                      /\ Cardinality({k \in keep : k < j}) = i - 1

\* of two suggestions the one below the threshold was dropped and the one
\* whose priority equals the threshold was kept
C20_Witness ==
    /\ returned.kind = "approved"
    /\ Len(improvement_suggestions) = 2
    /\ Len(returned.approved) = 1
    /\ returned.approved[1].suggestion.priority = rules.min_suggestion_priority

\* C21: anneal on a sampler whose temperature is zero or negative fails with
\* an InvalidParameter error and returns no reweighted vector.
C21_AnnealRejectsNonPositiveTemperature ==
    (returned.kind = "anneal" /\ sampler.temperature <= 0) =>
        returned.result.outcome = "InvalidParameter"

\* a matrix of n rows of n entries each
IsSquare(transition_matrix, n) ==
    /\ Len(transition_matrix) = n
    /\ \A j \in 1..Len(transition_matrix) : Len(transition_matrix[j]) = n

\* C22: quantum_walk_step fails with an InvalidParameter error whenever the
\* transition matrix is not square with the dimension of the state vector
\* (too few rows, too many rows, a row of another length); it neither panics
\* on an index nor ignores extra rows or columns.
C22_WalkStepRejectsMismatch ==
    (/\ returned.kind = "quantum_walk_step"
     /\ ~IsSquare(returned.transition_matrix, Len(returned.current_state))) =>
        returned.result.outcome = "InvalidParameter"

\* the draws of rs that fall within the total mass of a non-empty vector
WithinMass(probabilities, rs) ==
    {k \in 1..Len(rs) : probabilities # <<>> /\ rs[k] <= SumSeq(probabilities)}

\* C23: sample returns at most num_samples entries, each a valid index into
\* the probability vector; exactly the draws within the total mass select an
\* index and a draw above it selects nothing, so the result is shorter than
\* requested when some draw exceeds the mass and empty for an empty vector.
C23_SampleWithinBounds ==
    returned.kind = "sample" =>
        LET samples == returned.result.value
            probabilities == returned.probabilities
        IN  /\ returned.result.outcome = "Ok"
            /\ Len(samples) <= sampler.num_samples
            /\ \A i \in 1..Len(samples) : samples[i] \in 1..Len(probabilities)
            /\ Len(samples) = Cardinality(WithinMass(probabilities, returned.rs))
            /\ probabilities = <<>> => samples = <<>>

\* two draws from the reflector's vector for "hi" (total mass 0.19): one
\* within the mass, one above it, and one index comes back
C23_Witness ==
    /\ returned.kind = "sample"
    /\ returned.probabilities = <<20, 50, 500>>
    /\ returned.rs = <<2800, 50>>
    /\ returned.result.value = <<2>>

\* the capped feature triple (min(1, chars/100), min(1, words/20), 0.5) of a
\* text, in units of 1/ProbOne
CappedFeatures(input) ==
    << Min((input.len * ProbOne) \div 100, ProbOne),
       Min((input.words * ProbOne) \div 20, ProbOne),
       ProbOne \div 2 >>

\* C24: the vector the reflector passes to the sampler is the capped feature
\* triple with every entry divided by the sum of the three, so that its
\* entries sum to 1 (here: to within the rounding of the three quotients).
C24_ProbabilitiesNormalized ==
    returned.kind = "reflect" =>
        LET features == CappedFeatures(returned.input)
            sum == SumSeq(features)
        IN  /\ Len(returned.probabilities) = 3
            /\ \A i \in 1..3 : returned.probabilities[i] = (features[i] * ProbOne) \div sum
            /\ SumSeq(returned.probabilities) \in (ProbOne - 3)..ProbOne

\* C25: reflect never fails on degenerate sampling: it returns a Validation
\* step whose confidence lies in [0, 1], is 0 when no draw selected a
\* category and is 1 when all the selected draws fall in one category.
C25_ReflectToleratesDegenerateSamples ==
    returned.kind = "reflect" =>
        LET step == returned.result.value
            samples == returned.samples
        IN  /\ returned.result.outcome = "Ok"
            /\ step.step_type = "Validation"
            /\ step.confidence \in 0..ConfOne
            /\ samples = <<>> => step.confidence = 0
            /\ (samples # <<>> /\ \A i \in 1..Len(samples) : samples[i] = samples[1]) =>
                   step.confidence = ConfOne

\* every draw exceeded the total mass of the vector for "hi": no sample, and
\* the step has confidence 0
C25_Witness ==
    /\ returned.kind = "reflect"
    /\ returned.input = [len |-> 2, words |-> 1]
    /\ returned.samples = <<>>
    /\ returned.result.value.confidence = 0

\* C26: compute_optimal selects, among the points added so far, one with the
\* highest rate relative to distortion ((0.8, 0.2) among (0.5, 0.5), (0.8, 0.2)
\* and (0.6, 0.4)); on an empty curve optimal_point stays None and on a curve
\* of one point it is that point.
C26_OptimalIsBestTradeoff ==
    returned.kind = "compute_optimal" =>
        IF curve.points = <<>>
        THEN ~curve.optimal_point.some
        ELSE /\ curve.optimal_point.some
             /\ \E i \in 1..Len(curve.points) : curve.points[i] = curve.optimal_point.value
             /\ \A i \in 1..Len(curve.points) :
                    ~ScoreGreater(curve.points[i], curve.optimal_point.value)

\* C30: GraphMetrics::compute is total over the usize inputs: no arithmetic
\* underflow or overflow ends it, for node_count = 0 avg_degree is 0, for
\* node_count <= 1 density is 0, and for node_count >= 2 density is
\* edge_count divided by node_count * (node_count - 1) / 2.
C30_ComputeIsTotal ==
    returned.kind = "compute" =>
        LET n == returned.node_count
            metrics == returned.result.value
        IN  /\ returned.result.outcome = "Ok"
            /\ n = 0 => metrics.avg_degree = 0
            /\ n <= 1 => metrics.density = 0
            /\ n >= 2 => metrics.density = (1000 * returned.edge_count) \div ((n * (n - 1)) \div 2)

\* C27: the insights inside a ReflectionResult describe the model as this
\* pass left it.  The pass appends its three steps last and nothing is ever
\* removed, so the trace it left ends with its Reasoning step: total_steps
\* is the position of that step in the trace, and counts no step of a pass
\* that committed later.
C27_InsightsOfThisPass ==
    returned.kind = "reflection" =>
        \E i \in 1..Len(reasoning_trace) :
            /\ reasoning_trace[i] = returned.steps[3]
            /\ returned.insights.total_steps = i

\* a call of t is under way
InCall(t) == pc[t] # "idle"

\* what the calls hand back
ResultKinds == {"none", "reflection", "deep", "insights", "suggestions", "model", "quality", "record_error"}

\* C28: with the callers making reflect_on_query, deep_reflect, record_error
\* and the read calls concurrently, no call asks for the model lock while it
\* holds it, no call returns an error, and under fair lock scheduling every
\* call returns.
C28_CallsReturn ==
    /\ [](\A t \in Threads :
            pc[t] \in {"write_lock", "read_lock"} => (writer # t /\ t \notin readers))
    /\ [](returned.kind \in ResultKinds)
    /\ \A t \in Threads : InCall(t) ~> ~InCall(t)

\* a reflect_on_query has returned while the other caller's record_error is
\* kept waiting for the write lock by a reader
C28_Witness ==
    \E t, u \in Threads :
        /\ returned.kind = "reflection"
        /\ returned.thread = t
        /\ op[u] = "record_error"
        /\ pc[u] = "write_lock"

\* a pass of t has reached the end of its write block and is about to
\* release the write lock
AboutToRelease(t) == InPass(t) /\ pc[t] = "unlock"

\* C29: when a pass releases the write lock, the three most recent
\* confidences are its own (meta, quantum, complexity) and the suggestion
\* list holds an IncreaseConfidence suggestion exactly when the pass's
\* final_confidence is below 0.6, whatever the earlier history.
C29_IncreaseConfidenceIffLowFinal ==
    \A t \in Threads :
        AboutToRelease(t) =>
            LET final_confidence == steps[t][3].confidence
            IN  /\ Recent(confidence_history) =
                       <<steps[t][3].confidence, steps[t][2].confidence, steps[t][1].confidence>>
                /\ OfType(improvement_suggestions, "IncreaseConfidence") # {}
                       <=> 10 * final_confidence < 6 * ConfOne

\* a second pass of low final confidence, after a first of high final
\* confidence, is about to release the lock and has left the suggestion
C29_Witness ==
    \E t \in Threads :
        /\ AboutToRelease(t)
        /\ Len(confidence_history) = 6
        /\ 10 * confidence_history[3] >= 6 * ConfOne
        /\ 10 * steps[t][3].confidence < 6 * ConfOne
        /\ OfType(improvement_suggestions, "IncreaseConfidence") # {}

====
